---- MODULE Spec2Model ----
(***************************************************************************)
(* A model of the giphy_proxy repository: the HTTP request parser          *)
(* (http/src/request.rs, http/src/common.rs), the connection server        *)
(* (http/src/server.rs) and the CONNECT proxy handler                      *)
(* (giphy_proxy/src/lib.rs).  Bytes are integers 0..255 and strings are    *)
(* sequences of bytes.                                                     *)
(***************************************************************************)
EXTENDS Integers, Sequences, FiniteSets, TLC

(***************************************************************************)
(* Bounds of the model.                                                    *)
(***************************************************************************)
\* ParseOptions.max_target_len of the modelled server
MaxTargetLen == 17
\* ParseOptions.max_header_len of the modelled server
MaxHeaderLen == 5
\* ParseOptions.max_headers_section_len, configuration with a roomy section
LargeSectionLen == 8
\* ParseOptions.max_headers_section_len, configuration with a tight section
SmallSectionLen == 4
\* number of fragments the client sends after the start line
MaxFrags == 3

(***************************************************************************)
(* Bytes the code names.                                                   *)
(***************************************************************************)
CR == 13
LF == 10
SP == 32
COLON == 58
SLASH == 47
STAR == 42
DOT == 46
AsciiLimit == 128
MaxU16 == 65535
HttpsPort == 443

GiphyHost == <<97, 112, 105, 46, 103, 105, 112, 104, 121, 46, 99, 111, 109>>

Min(a, b) == IF a < b THEN a ELSE b

None == {}
Some(x) == {x}
Unwrap(o) == CHOOSE x \in o : TRUE

Ok(v) == [ok |-> TRUE, val |-> v]
Err(kind, arg) == [ok |-> FALSE, err |-> [kind |-> kind, arg |-> arg]]

(***************************************************************************)
(* str::split: the pieces of s between the occurrences of sep.             *)
(***************************************************************************)
RECURSIVE Split(_, _)
Split(s, sep) ==
    IF \A i \in 1..Len(s) : s[i] # sep
    THEN <<s>>
    ELSE LET i == CHOOSE j \in 1..Len(s) :
                      s[j] = sep /\ \A k \in 1..(j - 1) : s[k] # sep
         IN <<SubSeq(s, 1, i - 1)>> \o Split(SubSeq(s, i + 1, Len(s)), sep)

IsWhitespace(b) == b \in {9, 10, 11, 12, 13, 32}

\* str::trim
Trim(s) ==
    IF \A i \in 1..Len(s) : IsWhitespace(s[i])
    THEN <<>>
    ELSE LET first == CHOOSE i \in 1..Len(s) :
                          ~IsWhitespace(s[i])
                          /\ \A k \in 1..(i - 1) : IsWhitespace(s[k])
             last == CHOOSE i \in 1..Len(s) :
                          ~IsWhitespace(s[i])
                          /\ \A k \in (i + 1)..Len(s) : IsWhitespace(s[k])
         IN SubSeq(s, first, last)

IsDigit(b) == b \in 48..57
IsAlpha(b) == b \in 65..90 \/ b \in 97..122

(***************************************************************************)
(* Method::parse                                                           *)
(***************************************************************************)
Verbs ==
    [GET     |-> <<71, 69, 84>>,
     POST    |-> <<80, 79, 83, 84>>,
     PUT     |-> <<80, 85, 84>>,
     HEAD    |-> <<72, 69, 65, 68>>,
     DELETE  |-> <<68, 69, 76, 69, 84, 69>>,
     CONNECT |-> <<67, 79, 78, 78, 69, 67, 84>>,
     OPTIONS |-> <<79, 80, 84, 73, 79, 78, 83>>,
     TRACE   |-> <<84, 82, 65, 67, 69>>,
     PATCH   |-> <<80, 65, 84, 67, 72>>]

Method == DOMAIN Verbs

MethodParse(data) ==
    IF \E m \in Method : Verbs[m] = data
    THEN Ok(CHOOSE m \in Method : Verbs[m] = data)
    ELSE Err("InvalidMethod", data)

(***************************************************************************)
(* HttpVersion::parse                                                      *)
(***************************************************************************)
Versions ==
    [Http1_0 |-> <<72, 84, 84, 80, 47, 49, 46, 48>>,
     Http1_1 |-> <<72, 84, 84, 80, 47, 49, 46, 49>>,
     Http2_0 |-> <<72, 84, 84, 80, 47, 50, 46, 48>>]

HttpVersion == DOMAIN Versions

HttpVersionParse(data) ==
    IF \E v \in HttpVersion : Versions[v] = data
    THEN Ok(CHOOSE v \in HttpVersion : Versions[v] = data)
    ELSE Err("InvalidHttpVersion", <<>>)

(***************************************************************************)
(* Target::parse                                                           *)
(***************************************************************************)
\* the regex ^((\d|[[:alpha:]])+\.)+(\d|[[:alpha:]])+(:\d+)?$
AuthorityRegexMatch(s) ==
    LET parts == Split(s, COLON)
        labels == Split(parts[1], DOT)
    IN /\ Len(parts) \in {1, 2}
       /\ Len(labels) >= 2
       /\ \A i \in 1..Len(labels) :
             /\ Len(labels[i]) >= 1
             /\ \A k \in 1..Len(labels[i]) :
                   IsDigit(labels[i][k]) \/ IsAlpha(labels[i][k])
       /\ Len(parts) = 2 =>
             /\ Len(parts[2]) >= 1
             /\ \A k \in 1..Len(parts[2]) : IsDigit(parts[2][k])

\* the value of a string of decimal digits
RECURSIVE Decimal(_)
Decimal(p) ==
    IF Len(p) = 0 THEN 0
    ELSE 10 * Decimal(SubSeq(p, 1, Len(p) - 1)) + (p[Len(p)] - 48)

\* u16::from_str_radix(p, 10) on a string of digits
U16FromStr(p) ==
    IF Len(p) >= 1 /\ (\A k \in 1..Len(p) : IsDigit(p[k])) /\ Decimal(p) <= MaxU16
    THEN Ok(Decimal(p))
    ELSE Err("InvalidTarget", <<>>)

\* Url::from_str of the url crate: an absolute URL starts with a scheme,
\* a letter followed by letters, digits, '+', '-' or '.', and then ':'
UrlFromStr(s) ==
    LET parts == Split(s, COLON)
        scheme == parts[1]
    IN IF /\ Len(parts) >= 2
          /\ Len(scheme) >= 1
          /\ IsAlpha(scheme[1])
          /\ \A k \in 1..Len(scheme) :
                IsAlpha(scheme[k]) \/ IsDigit(scheme[k]) \/ scheme[k] \in {43, 45, 46}
       THEN Ok(s)
       ELSE Err("InvalidTarget", <<>>)

PathTarget(s) == [form |-> "Path", text |-> s, port |-> None]
GlobTarget == [form |-> "Glob", text |-> <<>>, port |-> None]
UrlTarget(s) == [form |-> "Url", text |-> s, port |-> None]
AuthorityTarget(domain, port) == [form |-> "Authority", text |-> domain, port |-> port]

TargetParse(target_str) ==
    IF Len(target_str) = 0 THEN Err("InvalidTarget", <<>>)
    ELSE IF target_str[1] = SLASH THEN Ok(PathTarget(target_str))
    ELSE IF target_str[1] = STAR
         THEN IF Len(target_str) = 1 THEN Ok(GlobTarget) ELSE Err("InvalidTarget", <<>>)
    ELSE IF AuthorityRegexMatch(target_str)
         THEN LET splits == Split(target_str, COLON)
                  domain == splits[1]
              IN IF Len(splits) >= 2
                 THEN LET port == U16FromStr(splits[2])
                      IN IF port.ok
                         THEN Ok(AuthorityTarget(domain, Some(port.val)))
                         ELSE Err("InvalidTarget", <<>>)
                 ELSE Ok(AuthorityTarget(domain, None))
    ELSE LET url == UrlFromStr(target_str)
         IN IF url.ok THEN Ok(UrlTarget(url.val)) ELSE Err("InvalidTarget", <<>>)

(***************************************************************************)
(* StartLine::parse                                                        *)
(***************************************************************************)
StartLineParse(data) ==
    LET splits == Split(data, SP)
        method == MethodParse(splits[1])
    IN IF ~method.ok THEN method
       ELSE IF Len(splits) < 2 THEN Err("InvalidStartLine", <<>>)
       ELSE LET target == TargetParse(splits[2])
            IN IF ~target.ok THEN target
               ELSE IF Len(splits) < 3 THEN Err("InvalidStartLine", <<>>)
               ELSE LET version == HttpVersionParse(splits[3])
                    IN IF ~version.ok THEN version
                       ELSE Ok([method |-> method.val,
                                target |-> target.val,
                                version |-> version.val])

(***************************************************************************)
(* Headers::parse_header                                                   *)
(***************************************************************************)
ParseHeader(data) ==
    LET splits == Split(data, COLON)
        key == splits[1]
    IN IF Len(splits) < 2 THEN Err("InvalidHeader", <<>>)
       ELSE LET val == splits[2]
            IN IF Len(key) = 0 \/ Len(val) = 0
               THEN Err("InvalidHeader", <<>>)
               ELSE Ok(<<Trim(key), Trim(val)>>)

\* HashMap::insert
HashMapInsert(h, key, val) ==
    [k \in (DOMAIN h) \cup {key} |-> IF k = key THEN val ELSE h[k]]

EmptyMap == [k \in {} |-> <<>>]

(***************************************************************************)
(* ParseOptions                                                            *)
(***************************************************************************)
MAX_VERB_LEN == Len(Verbs["OPTIONS"])
SPACES == 2
MAX_PROTOCOL_LEN == Len(Versions["Http1_1"])

max_start_line_len(o) == o.max_target_len + MAX_VERB_LEN + SPACES + MAX_PROTOCOL_LEN

ParseOptionsSet ==
    { [max_target_len |-> MaxTargetLen,
       max_headers_section_len |-> s,
       max_header_len |-> MaxHeaderLen] : s \in {LargeSectionLen, SmallSectionLen} }


(***************************************************************************)
(* The bytes a client may put on a connection.  A client sends a first     *)
(* fragment holding (part of) a start line and up to MaxFrags more         *)
(* fragments; a fragment need not end at a line boundary.                  *)
(***************************************************************************)
Rep(b, n) == [i \in 1..n |-> b]

Line3(m, t, v) == m \o <<SP>> \o t \o <<SP>> \o v

HTTP11 == Versions["Http1_1"]
BadVersion == <<72, 84, 84, 80, 47, 57>>
OtherHost == <<120, 46, 105, 111>>
Port443 == <<COLON, 52, 52, 51>>
Port80 == <<COLON, 56, 48>>
PortHuge == <<COLON, 57, 57, 57, 57, 57>>

TargetStrings ==
    { <<SLASH>>, <<STAR>>, <<STAR, 120>>, <<>>,
      GiphyHost, GiphyHost \o Port443, GiphyHost \o Port80,
      OtherHost, OtherHost \o Port443, OtherHost \o Port80, OtherHost \o PortHuge,
      <<104, COLON, 120>>, <<110, 111>> }

\* the start line the header experiments follow
BasicStartLine == Line3(Verbs["GET"], <<SLASH>>, HTTP11)

StartLines(o) ==
    { Line3(m, t, v) : m \in {Verbs["GET"], Verbs["CONNECT"], <<71, 79, 84>>},
                       t \in TargetStrings,
                       v \in {HTTP11, BadVersion} }
    \cup { Line3(Verbs["POST"], <<SLASH>>, Versions["Http1_0"]),
           Line3(Verbs["OPTIONS"], <<STAR>>, Versions["Http2_0"]),
           Verbs["GET"], Verbs["GET"] \o <<SP, SLASH>>,
           Line3(Verbs["GET"], <<SLASH>>, HTTP11) \o <<SP, 120>>,
           <<71, 200>> }
    \cup { Line3(Verbs["GET"], <<SLASH>> \o Rep(97, o.max_target_len + k), HTTP11) :
              k \in {0, 3, 4} }
    \cup { Line3(Verbs["CONNECT"], Rep(97, o.max_target_len - 4) \o <<DOT, 105, 111>> \o x, HTTP11) :
              x \in {<<>>, <<111>>} }
    \cup { Rep(97, max_start_line_len(o) + k) : k \in {0, 1, 2} }

StartFrags(o) ==
    { BasicStartLine \o t : t \in {<<LF>>, <<CR, LF>>} }
    \cup { l \o <<LF>> : l \in StartLines(o) }
    \cup { l \o t : l \in { BasicStartLine,
                             Rep(97, max_start_line_len(o) + 1),
                             Verbs["GET"] \o <<SP, SLASH>> },
                    t \in {<<>>, <<CR>>, <<CR, LF>>, <<CR, 120>>} }

HeaderLines(o) ==
    { <<97, COLON, 98>>,                    \* a:b
      <<SP, 97, SP, COLON, 99>>,            \* " a :c", the key a again
      <<107, COLON, 118, COLON, 119>>,      \* k:v:w
      <<97, COLON>> \o Rep(98, o.max_header_len - 2) }

BadHeaderLines(o) ==
    { <<97, 98>>, <<COLON, 98>>, <<97, COLON>>, <<97, COLON, SP>>,
      <<97, COLON, 200>>,
      <<97, COLON>> \o Rep(98, o.max_header_len - 1),
      <<97, COLON>> \o Rep(98, o.max_header_len) }

HeaderFrags(o) ==
    { l \o <<LF>> : l \in HeaderLines(o) \cup BadHeaderLines(o) }
    \cup { <<97, COLON, 98, CR, LF>>, <<97, COLON>>, <<CR>>, <<98, CR, 98>> }

EndFrags == { <<LF>>, <<CR, LF>>, <<LF, 120, 121>>, <<CR, LF, 120>> }

\* what a client sends into an open tunnel
PayloadFrags == { <<121, 122, 123>> }

NextFrags(o, sent) ==
    IF \E t \in {<<LF>>, <<CR, LF>>} :
          /\ Len(sent) >= Len(BasicStartLine \o t)
          /\ SubSeq(sent, 1, Len(BasicStartLine \o t)) = BasicStartLine \o t
    THEN HeaderFrags(o) \cup EndFrags
    ELSE EndFrags \cup { <<120>> }

(***************************************************************************)
(* Request::parse                                                          *)
(***************************************************************************)
ParseStartLine == [tag |-> "ParseStartLine"]
ParseHeaders(size, start_line, headers) ==
    [tag |-> "ParseHeaders", size |-> size, start_line |-> start_line, headers |-> headers]

Pending == [tag |-> "Pending"]

\* a read buffer of two bytes
ReadBufferLenTwo == Len(<<0, 0>>)

\* read_buffer = vec![0; 1]
ReadBufferLen == 1

\* LimitCheck with the per-header bound off by one
LimitCheckTight(o, st, line) ==
    IF st.tag = "ParseStartLine"
    THEN IF Len(line) > max_start_line_len(o)
         THEN "StartLineExceedsMaxLength" ELSE "ok"
    ELSE IF o.max_headers_section_len < st.size + Len(line)
         THEN "HeadersSectionTooLong"
         ELSE IF Len(line) >= o.max_header_len THEN "HeaderTooLong" ELSE "ok"

\* the check of the limits made after each successful read (lines 217-231)
LimitCheck(o, st, line) ==
    IF st.tag = "ParseStartLine"
    THEN IF Len(line) > max_start_line_len(o)
         THEN "StartLineExceedsMaxLength" ELSE "ok"
    ELSE IF o.max_headers_section_len < st.size + Len(line)
         THEN "HeadersSectionTooLong"
         ELSE IF Len(line) > o.max_header_len THEN "HeaderTooLong" ELSE "ok"

\* the state after a line terminator (lines 254-292): the next parser
\* state and the outcome of parse, Pending when parsing goes on
EndOfLine(st, line) ==
    IF st.tag = "ParseStartLine"
    THEN LET sl == StartLineParse(line)
         IN IF sl.ok
            THEN [state |-> ParseHeaders(0, sl.val, EmptyMap), result |-> Pending]
            ELSE [state |-> st, result |-> sl]
    ELSE IF Len(line) = 0
         THEN [state |-> st,
               result |-> Ok([start_line |-> st.start_line, headers |-> st.headers])]
         ELSE LET kv == ParseHeader(line)
              IN IF kv.ok
                 THEN [state |-> ParseHeaders(st.size, st.start_line,
                                              HashMapInsert(st.headers, kv.val[1], kv.val[2])),
                       result |-> Pending]
                 ELSE [state |-> st, result |-> kv]

\* the end of the stream taken as the end of a line
EndOfStreamEndsLine(st, line) == EndOfLine(st, line)

\* a read that returns zero bytes (lines 213-215 and 245-247)
EndOfStream(st, line) ==
    [state |-> st, result |-> Err("UnexpectedEndOfStream", <<>>)]

\* any byte is taken after a CR
CRFollowedByAny(b) == TRUE

\* the byte read after a CR is the LF that ends the line (line 249)
CRFollowedByLF(b) == b = LF

\* The running parse: the state machine, the line buffer, the read it is
\* suspended at ("read" at line 211, "read_lf" at line 243) and its outcome.
InitParse ==
    [state |-> ParseStartLine, current_line |-> <<>>, ppc |-> "read", result |-> Pending]

Returned(c, r) == [c EXCEPT !.result = r]

\* lines 254-295, with the byte b in read_buffer
HandleByte(c, b) ==
    IF b = LF
    THEN LET e == EndOfLine(c.state, c.current_line)
         IN [state |-> e.state,
             current_line |-> IF e.result = Pending THEN <<>> ELSE c.current_line,
             ppc |-> "read",
             result |-> e.result]
    ELSE [c EXCEPT !.current_line = Append(c.current_line, b), !.ppc = "read"]

\* the iteration without the test of line 233
ParseStepAnyByte(o, c, b) ==
    IF c.ppc = "read"
    THEN LET limit == LimitCheck(o, c.state, c.current_line)
         IN IF limit # "ok" THEN Returned(c, Err(limit, <<>>))
            ELSE IF b = CR THEN [c EXCEPT !.ppc = "read_lf"]
            ELSE HandleByte(c, b)
    ELSE IF ~CRFollowedByLF(b) THEN Returned(c, Err("UnexpectedCR", <<>>))
         ELSE HandleByte(c, b)

\* one iteration of the loop from a read that returned the byte b to the
\* next read or the return
ParseStep(o, c, b) ==
    IF c.ppc = "read"
    THEN LET limit == LimitCheck(o, c.state, c.current_line)
         IN IF limit # "ok" THEN Returned(c, Err(limit, <<>>))
            ELSE IF b >= AsciiLimit THEN Returned(c, Err("InvalidEncoding", <<>>))
            ELSE IF b = CR THEN [c EXCEPT !.ppc = "read_lf"]
            ELSE HandleByte(c, b)
    ELSE IF ~CRFollowedByLF(b) THEN Returned(c, Err("UnexpectedCR", <<>>))
         ELSE HandleByte(c, b)

\* a read that returned zero bytes
ParseEof(c) ==
    LET e == EndOfStream(c.state, c.current_line)
    IN [c EXCEPT !.state = e.state, !.result = e.result]

(***************************************************************************)
(* Response and Status (http/src/response.rs)                              *)
(***************************************************************************)
StatusCode ==
    [Ok |-> 200, MethodNotAllowed |-> 405, BadRequest |-> 400,
     RequestHeaderFieldsTooLarge |-> 431, UriTooLong |-> 414, BadGateway |-> 502]

\* a message is a text, followed by a quoted argument when arg is Some
Text(t) == [text |-> t, arg |-> None]

\* the length of the Debug rendering of a byte of a str
DebugByteLen(b) ==
    IF b \in {0, 9, 10, 13, 34, 92} THEN 2
    ELSE IF b < 16 THEN 5
    ELSE IF b < 32 \/ b = 127 THEN 6
    ELSE 1

RECURSIVE DebugLen(_)
DebugLen(a) ==
    IF Len(a) = 0 THEN 0 ELSE DebugByteLen(Head(a)) + DebugLen(Tail(a))

MessageLen(m) ==
    Len(m.text) + (IF m.arg = None THEN 0 ELSE 4 + DebugLen(Unwrap(m.arg)))

\* Response::error_response
ErrorResponse(status, message) ==
    [status |-> status,
     http_version |-> "Http1_1",
     content_length |-> MessageLen(message),
     body |-> message]

IOErrorText ==
    "IOError(IOErrorWrapper { err: Os { code: 104, kind: ConnectionReset, message: \"Connection reset by peer\" } })"

\* Display for Error, which writes the Debug rendering
ErrorDisplay(e) ==
    IF e.kind = "InvalidMethod" THEN [text |-> e.kind, arg |-> Some(e.arg)]
    ELSE IF e.kind = "IOError" THEN Text(IOErrorText)
    ELSE Text(e.kind)

(***************************************************************************)
(* Response::write_to_stream (http/src/response.rs lines 26-56)            *)
(***************************************************************************)
\* Status::to_str, as US-ASCII bytes
StatusText ==
    [Ok |-> <<79, 75>>,
     MethodNotAllowed |-> <<77, 101, 116, 104, 111, 100, 32, 78, 111, 116, 32, 65, 108, 108,
        111, 119, 101, 100>>,
     BadRequest |-> <<66, 97, 100, 32, 82, 101, 113, 117, 101, 115, 116>>,
     RequestHeaderFieldsTooLarge |->
        <<82, 101, 113, 117, 101, 115, 116, 32, 72, 101, 97, 100, 101, 114,
        32, 70, 105, 101, 108, 100, 115, 32, 84, 111, 111, 32, 76, 97, 114,
        103, 101>>,
     UriTooLong |-> <<85, 82, 73, 32, 84, 111, 111, 32, 76, 111, 110, 103>>,
     BadGateway |-> <<66, 97, 100, 32, 71, 97, 116, 101, 119, 97, 121>>]

\* the US-ASCII bytes of the texts of the messages
TextBytes ==
    ("" :>
        <<>>) @@
    ("Invalid proxy target" :>
        <<73, 110, 118, 97, 108, 105, 100, 32, 112, 114, 111, 120, 121, 32,
        116, 97, 114, 103, 101, 116>>) @@
    ("Invalid port. Must use 443" :>
        <<73, 110, 118, 97, 108, 105, 100, 32, 112, 111, 114, 116, 46, 32,
        77, 117, 115, 116, 32, 117, 115, 101, 32, 52, 52, 51>>) @@
    ("Failed to proxy to remote service" :>
        <<70, 97, 105, 108, 101, 100, 32, 116, 111, 32, 112, 114, 111, 120,
        121, 32, 116, 111, 32, 114, 101, 109, 111, 116, 101, 32, 115, 101,
        114, 118, 105, 99, 101>>) @@
    ("Headers too long." :>
        <<72, 101, 97, 100, 101, 114, 115, 32, 116, 111, 111, 32, 108, 111,
        110, 103, 46>>) @@
    ("A header is too long." :>
        <<65, 32, 104, 101, 97, 100, 101, 114, 32, 105, 115, 32, 116, 111,
        111, 32, 108, 111, 110, 103, 46>>) @@
    ("The target in the start line is too long." :>
        <<84, 104, 101, 32, 116, 97, 114, 103, 101, 116, 32, 105, 110, 32,
        116, 104, 101, 32, 115, 116, 97, 114, 116, 32, 108, 105, 110, 101,
        32, 105, 115, 32, 116, 111, 111, 32, 108, 111, 110, 103, 46>>) @@
    ("InvalidMethod" :>
        <<73, 110, 118, 97, 108, 105, 100, 77, 101, 116, 104, 111, 100>>) @@
    ("InvalidEncoding" :>
        <<73, 110, 118, 97, 108, 105, 100, 69, 110, 99, 111, 100, 105, 110,
        103>>) @@
    ("UnexpectedEndOfStream" :>
        <<85, 110, 101, 120, 112, 101, 99, 116, 101, 100, 69, 110, 100, 79,
        102, 83, 116, 114, 101, 97, 109>>) @@
    ("InvalidHeader" :>
        <<73, 110, 118, 97, 108, 105, 100, 72, 101, 97, 100, 101, 114>>) @@
    ("InvalidHttpVersion" :>
        <<73, 110, 118, 97, 108, 105, 100, 72, 116, 116, 112, 86, 101, 114,
        115, 105, 111, 110>>) @@
    ("InvalidStartLine" :>
        <<73, 110, 118, 97, 108, 105, 100, 83, 116, 97, 114, 116, 76, 105,
        110, 101>>) @@
    ("InvalidTarget" :>
        <<73, 110, 118, 97, 108, 105, 100, 84, 97, 114, 103, 101, 116>>) @@
    ("UnexpectedCR" :>
        <<85, 110, 101, 120, 112, 101, 99, 116, 101, 100, 67, 82>>) @@
    ("StartLineExceedsMaxLength" :>
        <<83, 116, 97, 114, 116, 76, 105, 110, 101, 69, 120, 99, 101, 101,
        100, 115, 77, 97, 120, 76, 101, 110, 103, 116, 104>>) @@
    ("HeadersSectionTooLong" :>
        <<72, 101, 97, 100, 101, 114, 115, 83, 101, 99, 116, 105, 111, 110,
        84, 111, 111, 76, 111, 110, 103>>) @@
    ("HeaderTooLong" :>
        <<72, 101, 97, 100, 101, 114, 84, 111, 111, 76, 111, 110, 103>>) @@
    ("ConnectionClosed" :>
        <<67, 111, 110, 110, 101, 99, 116, 105, 111, 110, 67, 108, 111, 115,
        101, 100>>) @@
    (IOErrorText :>
        <<73, 79, 69, 114, 114, 111, 114, 40, 73, 79, 69, 114, 114, 111,
        114, 87, 114, 97, 112, 112, 101, 114, 32, 123, 32, 101, 114, 114,
        58, 32, 79, 115, 32, 123, 32, 99, 111, 100, 101, 58, 32, 49, 48, 52,
        44, 32, 107, 105, 110, 100, 58, 32, 67, 111, 110, 110, 101, 99, 116,
        105, 111, 110, 82, 101, 115, 101, 116, 44, 32, 109, 101, 115, 115,
        97, 103, 101, 58, 32, 34, 67, 111, 110, 110, 101, 99, 116, 105, 111,
        110, 32, 114, 101, 115, 101, 116, 32, 98, 121, 32, 112, 101, 101,
        114, 34, 32, 125, 32, 125, 41>>)

\* the header key "Content-length"
ContentLengthKey ==
    <<67, 111, 110, 116, 101, 110, 116, 45, 108, 101, 110, 103, 116, 104>>

\* format!("{}", n) for an unsigned number
RECURSIVE ToDecimal(_)
ToDecimal(n) ==
    IF n < 10 THEN <<48 + n>> ELSE Append(ToDecimal(n \div 10), 48 + (n % 10))

HexDigit(d) == IF d < 10 THEN 48 + d ELSE 87 + d

\* the Debug rendering of a byte of a str
DebugByte(b) ==
    IF b = 0 THEN <<92, 48>>
    ELSE IF b = 9 THEN <<92, 116>>
    ELSE IF b = 10 THEN <<92, 110>>
    ELSE IF b = 13 THEN <<92, 114>>
    ELSE IF b \in {34, 92} THEN <<92, b>>
    ELSE IF b < 16 THEN <<92, 117, 123, HexDigit(b), 125>>
    ELSE IF b < 32 \/ b = 127
         THEN <<92, 117, 123, HexDigit(b \div 16), HexDigit(b % 16), 125>>
    ELSE <<b>>

RECURSIVE DebugBytes(_)
DebugBytes(a) ==
    IF Len(a) = 0 THEN <<>> ELSE DebugByte(Head(a)) \o DebugBytes(Tail(a))

\* the bytes of a message: the text, and ("arg") after it when there is one
MessageBytes(m) ==
    TextBytes[m.text] \o
    (IF m.arg = None THEN <<>>
     ELSE <<40, 34>> \o DebugBytes(Unwrap(m.arg)) \o <<34, 41>>)

\* the headers of a Response, which error_response fills with one entry
HeadersOf(r) == << <<ContentLengthKey, ToDecimal(r.content_length)>> >>

\* format!("{}:{}\r\n", k, v)
HeaderLine(h) == h[1] \o <<COLON>> \o h[2] \o <<CR, LF>>

\* length of the buffer the body is read into (line 44)
BodyBufLen == 128

\* the body loop of lines 43-53: each pass reads up to BodyBufLen bytes of
\* the body into a zeroed buffer and writes the whole buffer
RECURSIVE BodyWrites(_)
BodyWrites(body) ==
    IF Len(body) = 0 THEN <<>>
    ELSE LET bytes_read == Min(BodyBufLen, Len(body))
             data == SubSeq(body, 1, bytes_read) \o Rep(0, BodyBufLen - bytes_read)
         IN <<data>> \o BodyWrites(SubSeq(body, bytes_read + 1, Len(body)))

\* the buffers write_to_stream hands to s.write, in order
WriteCalls(r) ==
    << Versions[r.http_version] \o <<SP>>,
       ToDecimal(StatusCode[r.status]) \o <<SP>>,
       StatusText[r.status] \o <<CR, LF>> >>
    \o [i \in 1..Len(HeadersOf(r)) |-> HeaderLine(HeadersOf(r)[i])]
    \o << <<CR, LF>> >>
    \o BodyWrites(MessageBytes(r.body))

RECURSIVE Flatten(_)
Flatten(ws) == IF Len(ws) = 0 THEN <<>> ELSE Head(ws) \o Flatten(Tail(ws))

\* what is on the stream once the first k writes are done
Written(r, k) == Flatten(SubSeq(WriteCalls(r), 1, k))

(***************************************************************************)
(* HttpServer::run, the task of one accepted connection                    *)
(***************************************************************************)
\* ParseErrorResponse without the arm of StartLineExceedsMaxLength
ParseErrorResponseNoUriTooLong(e) ==
    IF e.kind = "HeadersSectionTooLong"
    THEN ErrorResponse("RequestHeaderFieldsTooLarge", Text("Headers too long."))
    ELSE IF e.kind = "HeaderTooLong"
    THEN ErrorResponse("RequestHeaderFieldsTooLarge", Text("A header is too long."))
    ELSE ErrorResponse("BadRequest", ErrorDisplay(e))

\* the response for a failed parse (server.rs lines 119-124)
ParseErrorResponse(e) ==
    IF e.kind = "HeadersSectionTooLong"
    THEN ErrorResponse("RequestHeaderFieldsTooLarge", Text("Headers too long."))
    ELSE IF e.kind = "HeaderTooLong"
    THEN ErrorResponse("RequestHeaderFieldsTooLarge", Text("A header is too long."))
    ELSE IF e.kind = "StartLineExceedsMaxLength"
    THEN ErrorResponse("UriTooLong", Text("The target in the start line is too long."))
    ELSE ErrorResponse("BadRequest", ErrorDisplay(e))

\* a task that writes whatever the handler returned
ServerAfterHandlerAlwaysWrite(hr) == "write"

\* where the task goes when the handler has returned (lines 100-106)
ServerAfterHandler(hr) == IF hr.ok THEN "write" ELSE "done"

\* a task that serves the connection again after a write
ServerAfterWriteKeepAlive(ok) == "parse"

\* where the task goes after write_to_stream (lines 108-114, 126-134)
ServerAfterWrite(ok) == "done"

(***************************************************************************)
(* handle_proxy (giphy_proxy/src/lib.rs)                                   *)
(***************************************************************************)
\* Validate with the check of the domain before the check of the port
ValidateDomainFirst(request) ==
    LET host == request.start_line.target
    IN IF request.start_line.method # "CONNECT"
       THEN Some(ErrorResponse("MethodNotAllowed", Text("")))
       ELSE IF host.form # "Authority"
       THEN Some(ErrorResponse("BadRequest", Text("Invalid proxy target")))
       ELSE IF host.text # GiphyHost \/ host.port = None
       THEN Some(ErrorResponse("BadRequest", Text("Invalid proxy target")))
       ELSE IF host.port # None /\ Unwrap(host.port) # HttpsPort
       THEN Some(ErrorResponse("BadRequest", Text("Invalid port. Must use 443")))
       ELSE None

\* the checks of lines 38-70: Some(response) when the request is rejected
Validate(request) ==
    LET host == request.start_line.target
    IN IF request.start_line.method # "CONNECT"
       THEN Some(ErrorResponse("MethodNotAllowed", Text("")))
       ELSE IF host.form # "Authority"
       THEN Some(ErrorResponse("BadRequest", Text("Invalid proxy target")))
       ELSE IF host.port # None /\ Unwrap(host.port) # HttpsPort
       THEN Some(ErrorResponse("BadRequest", Text("Invalid port. Must use 443")))
       ELSE IF host.text # GiphyHost \/ host.port = None
       THEN Some(ErrorResponse("BadRequest", Text("Invalid proxy target")))
       ELSE None

BadGatewayResponse ==
    ErrorResponse("BadGateway", Text("Failed to proxy to remote service"))

\* number of bytes one read of stream_copy can return
CopyBufLen == 2
\* what the upstream sends, once
UpstreamChunks == { <<2, 3, 4>> }

Dirs == {"client", "proxy"}

VARIABLES
    options,        \* the ParseOptions of the server
    input,          \* the bytes the client has sent on the connection so far
    closed,         \* the client has shut down its sending side
    frags,          \* number of fragments sent after the first
    pos,            \* number of bytes read from the connection
    state,          \* RequestParseStateMachine of the running parse
    current_line,   \* the line buffer of the running parse
    ppc,            \* the read the parse is suspended at: "read" or "read_lf"
    num_stream_bytes, \* what the last read of the parse returned, -1 before it
    result,         \* what Request::parse returned, Pending while it runs
    spc,            \* where the connection's task is: parse, handler, write, done
    response,       \* the Response the task is about to write, None before
    hpc,            \* where handle_proxy is
    handler_result, \* what handle_proxy returned, Pending before
    client_rx,      \* what has been written on the client connection, in order
    events,         \* the task's parse, handler and write events, in order
    cpc,            \* per stream_copy task: read, write or done
    cbuf,           \* per stream_copy task: the chunk read and not yet written
    upstream_rx,    \* the bytes written on the upstream connection
    upstream_tx,    \* the bytes the upstream has sent
    upos,           \* number of bytes read from the upstream connection
    upstream_closed,\* the upstream has shut down its sending side
    write_failed,   \* per stream_copy task: it has logged "Write failed"
    dialed          \* the resolve and connect attempts, in order

\* number of connections made to the server
MaxConns == 2
\* number of calls of run on the one server
MaxRuns == 2

ConnIds == 1..MaxConns
Runs == 1..MaxRuns

\* a connection nobody has made yet
NoConn ==
    [pc |-> "none", input |-> <<>>, closed |-> FALSE, result |-> Pending,
     handler_result |-> Pending, response |-> None, rx |-> <<>>]

\* the server as a whole: its calls of run, its ready signal and the
\* connections it accepts, each with the state of its own task
VARIABLES
    rpc,            \* per call of HttpServer::run: idle, accepting or failed
    notify_start,   \* the Cell of the ready signal: None, or Some sender
    ready,          \* the channel of the ready signal: None, or Some runs that sent on it
    conns           \* per connection: its stream and the state of its task

listenerVars == <<rpc, notify_start, ready, conns>>

parseVars == <<state, current_line, ppc, num_stream_bytes, result>>
clientVars == <<input, closed, frags>>
serverVars == <<spc, response, events>>
relayVars == <<cpc, cbuf, upstream_rx, upstream_tx, upos, upstream_closed,
              write_failed>>
handlerVars == <<hpc, handler_result, dialed>>

connVars == <<options, clientVars, pos, parseVars, serverVars, handlerVars,
              client_rx, relayVars>>

vars == <<connVars, listenerVars>>

Parsing == spc = "parse" /\ result = Pending

\* no call of run yet, and no connection
ListenerIdle ==
    /\ rpc = [r \in Runs |-> "idle"]
    /\ conns = [c \in ConnIds |-> NoConn]

Init ==
    /\ ListenerIdle
    /\ notify_start = None
    /\ ready = None
    /\ options \in ParseOptionsSet
    /\ input = <<>>
    /\ closed = FALSE
    /\ frags = 0
    /\ pos = 0
    /\ state = ParseStartLine
    /\ current_line = <<>>
    /\ ppc = "read"
    /\ num_stream_bytes = -1
    /\ result = Pending
    /\ spc = "parse"
    /\ response = None
    /\ hpc = "idle"
    /\ handler_result = Pending
    /\ client_rx = <<>>
    /\ events = <<>>
    /\ cpc = [d \in Dirs |-> "idle"]
    /\ cbuf = [d \in Dirs |-> <<>>]
    /\ upstream_rx = <<>>
    /\ upstream_tx = <<>>
    /\ upos = 0
    /\ upstream_closed = FALSE
    /\ write_failed = [d \in Dirs |-> FALSE]
    /\ dialed = <<>>

(***************************************************************************)
(* The client                                                              *)
(***************************************************************************)
\* a read of the client connection is waiting for bytes
ReaderWaiting ==
    /\ pos = Len(input)
    /\ ~closed
    /\ Parsing \/ (hpc = "relay" /\ cpc["client"] = "read")

ClientSendStart ==
    /\ ReaderWaiting
    /\ input = <<>>
    /\ \E f \in StartFrags(options) : input' = f
    /\ UNCHANGED <<listenerVars, options, closed, frags, pos, parseVars, serverVars,
                   handlerVars, client_rx, relayVars>>

ClientSend ==
    /\ ReaderWaiting
    /\ input # <<>>
    /\ frags < MaxFrags
    /\ \E f \in (IF Parsing THEN NextFrags(options, input) ELSE PayloadFrags) :
          input' = input \o f
    /\ frags' = frags + 1
    /\ UNCHANGED <<listenerVars, options, closed, pos, parseVars, serverVars,
                   handlerVars, client_rx, relayVars>>

ClientClose ==
    /\ ReaderWaiting
    /\ closed' = TRUE
    /\ UNCHANGED <<listenerVars, options, input, frags, pos, parseVars, serverVars,
                   handlerVars, client_rx, relayVars>>

(***************************************************************************)
(* Request::parse, one action per read it is suspended at                  *)
(***************************************************************************)
Config == [state |-> state, current_line |-> current_line, ppc |-> ppc, result |-> result]

SetConfig(c) ==
    /\ state' = c.state
    /\ current_line' = c.current_line
    /\ ppc' = c.ppc
    /\ result' = c.result

\* a read returns zero bytes: the stream has ended
ZeroRead ==
    /\ pos = Len(input) /\ closed
    /\ num_stream_bytes' = 0
    /\ pos' = pos
    /\ SetConfig(ParseEof(Config))

\* a read returns bytes, of which the code looks at read_buffer[0]
ByteRead ==
    /\ pos < Len(input)
    /\ num_stream_bytes' = Min(ReadBufferLen, Len(input) - pos)
    /\ pos' = pos + Min(ReadBufferLen, Len(input) - pos)
    /\ SetConfig(ParseStep(options, Config, input[pos + 1]))

\* the read at line 211 and the code up to the next read
ParseRead ==
    /\ Parsing
    /\ ppc = "read"
    /\ ZeroRead \/ ByteRead
    /\ UNCHANGED <<listenerVars, options, clientVars, serverVars, handlerVars, client_rx, relayVars>>

\* the read at line 243, after a CR, and the code up to the next read
ParseReadAfterCR ==
    /\ Parsing
    /\ ppc = "read_lf"
    /\ ZeroRead \/ ByteRead
    /\ UNCHANGED <<listenerVars, options, clientVars, serverVars, handlerVars, client_rx, relayVars>>

\* either read fails with an I/O error, which `?` returns
ParseReadError ==
    /\ Parsing
    /\ SetConfig(Returned(Config, Err("IOError", <<>>)))
    /\ UNCHANGED <<listenerVars, options, clientVars, pos, num_stream_bytes, serverVars,
                   handlerVars, client_rx, relayVars>>

(***************************************************************************)
(* The connection's task after the parse (server.rs lines 98-136)          *)
(***************************************************************************)
\* Err(e): choose the error response
ServerParseFailed ==
    /\ spc = "parse"
    /\ result # Pending
    /\ ~result.ok
    /\ response' = Some(ParseErrorResponse(result.err))
    /\ spc' = "write"
    /\ events' = Append(events, "parse_err")
    /\ UNCHANGED <<listenerVars, options, clientVars, pos, parseVars, handlerVars, client_rx, relayVars>>

\* HandleProxyCall with a handler that resolves whatever the request is
HandleProxyCallNoValidation ==
    /\ spc = "parse"
    /\ result # Pending
    /\ result.ok
    /\ spc' = "handler"
    /\ events' = events \o <<"parse_ok", "handler_call">>
    /\ hpc' = "resolve"
    /\ UNCHANGED <<listenerVars, options, clientVars, pos, parseVars, response, dialed,
                   handler_result, client_rx, relayVars>>

\* Ok(req): call the handler, which runs to its first await or return
HandleProxyCall ==
    /\ spc = "parse"
    /\ result # Pending
    /\ result.ok
    /\ spc' = "handler"
    /\ events' = events \o <<"parse_ok", "handler_call">>
    /\ LET v == Validate(result.val)
       IN IF v # None
          THEN /\ handler_result' = Ok(Unwrap(v))
               /\ hpc' = "returned"
          ELSE /\ hpc' = "resolve"
               /\ UNCHANGED handler_result
    /\ UNCHANGED <<listenerVars, options, clientVars, pos, parseVars, response, dialed,
                   client_rx, relayVars>>

\* the handler has returned
ServerHandlerReturned ==
    /\ spc = "handler"
    /\ handler_result # Pending
    /\ spc' = ServerAfterHandler(handler_result)
    /\ response' = IF handler_result.ok THEN Some(handler_result.val) ELSE response
    /\ events' = Append(events, "handler_return")
    /\ UNCHANGED <<listenerVars, options, clientVars, pos, parseVars, handlerVars, client_rx, relayVars>>

\* the writes done before the one that fails, of n writes: a failure is
\* taken at the first write or at the last
FailedAfter(n) == {0, n - 1}

\* what write_to_stream of r leaves on the stream: all its writes when it
\* succeeds, and the writes before the one that fails when it fails
WriteOutcomes(r) ==
    { [complete |-> TRUE, bytes |-> Written(r, Len(WriteCalls(r)))] }
    \cup { [complete |-> FALSE, bytes |-> Written(r, k)] :
              k \in FailedAfter(Len(WriteCalls(r))) }

\* response.write_to_stream(stream), which succeeds or fails
ServerWrite ==
    /\ spc = "write"
    /\ \E w \in WriteOutcomes(Unwrap(response)) :
          /\ client_rx' = Append(client_rx,
                [by |-> "server", response |-> Unwrap(response),
                 complete |-> w.complete, bytes |-> w.bytes])
          /\ spc' = ServerAfterWrite(w.complete)
    /\ events' = Append(events, "write")
    /\ UNCHANGED <<listenerVars, options, clientVars, pos, parseVars, response, handlerVars, relayVars>>

(***************************************************************************)
(* handle_proxy after the checks (lib.rs lines 72-118)                     *)
(***************************************************************************)
Return(r) ==
    /\ handler_result' = r
    /\ hpc' = "returned"

\* to_socket_addrs: an error, no address, or an address
HandleProxyResolve ==
    /\ hpc = "resolve"
    /\ dialed' = Append(dialed, "resolve")
    /\ \/ Return(Err("IOError", <<>>))
       \/ Return(Ok(BadGatewayResponse))
       \/ hpc' = "connect" /\ UNCHANGED handler_result
    /\ UNCHANGED <<listenerVars, options, clientVars, pos, parseVars, serverVars, client_rx, relayVars>>

\* TcpStream::connect
HandleProxyConnect ==
    /\ hpc = "connect"
    /\ dialed' = Append(dialed, "connect")
    /\ \/ Return(Ok(BadGatewayResponse))
       \/ hpc' = "write_ok" /\ UNCHANGED handler_result
    /\ UNCHANGED <<listenerVars, options, clientVars, pos, parseVars, serverVars, client_rx, relayVars>>

\* ok_response.write_to_stream(stream.clone()).await? and the two spawns
HandleProxyWriteOk ==
    /\ hpc = "write_ok"
    /\ \E w \in WriteOutcomes(ErrorResponse("Ok", Text(""))) :
          /\ client_rx' = Append(client_rx,
                [by |-> "handler", response |-> ErrorResponse("Ok", Text("")),
                 complete |-> w.complete, bytes |-> w.bytes])
          /\ IF w.complete
             THEN /\ hpc' = "relay"
                  /\ cpc' = [d \in Dirs |-> "read"]
                  /\ UNCHANGED handler_result
             ELSE /\ Return(Err("IOError", <<>>))
                  /\ UNCHANGED cpc
    /\ UNCHANGED <<listenerVars, options, clientVars, pos, parseVars, serverVars, dialed,
                   cbuf, upstream_rx, upstream_tx, upos, upstream_closed,
                   write_failed>>

\* HandleProxyJoin with a handler that ends with the response of the tunnel
HandleProxyJoinOk ==
    /\ hpc = "relay"
    /\ \A d \in Dirs : cpc[d] = "done"
    /\ Return(Ok(ErrorResponse("Ok", Text(""))))
    /\ UNCHANGED <<listenerVars, options, clientVars, pos, parseVars, serverVars, dialed,
                   client_rx, relayVars>>

\* read_client.await and read_proxy.await, then Err(ConnectionClosed)
HandleProxyJoin ==
    /\ hpc = "relay"
    /\ \A d \in Dirs : cpc[d] = "done"
    /\ Return(Err("ConnectionClosed", <<>>))
    /\ UNCHANGED <<listenerVars, options, clientVars, pos, parseVars, serverVars, dialed,
                   client_rx, relayVars>>

(***************************************************************************)
(* stream_copy (lib.rs lines 120-151); the task "client" copies from the   *)
(* client to the upstream and the task "proxy" from the upstream to the    *)
(* client                                                                  *)
(***************************************************************************)
Available(d) == IF d = "client" THEN Len(input) - pos ELSE Len(upstream_tx) - upos
AtEnd(d) == Available(d) = 0 /\ (IF d = "client" THEN closed ELSE upstream_closed)

\* s1.read(&mut buf) returns bytes or zero
CopyRead(d) ==
    /\ hpc = "relay"
    /\ cpc[d] = "read"
    /\ \/ /\ AtEnd(d)
          /\ cpc' = [cpc EXCEPT ![d] = "done"]
          /\ UNCHANGED <<cbuf, pos, upos>>
       \/ /\ Available(d) > 0
          /\ LET n == Min(CopyBufLen, Available(d))
             IN IF d = "client"
                THEN /\ cbuf' = [cbuf EXCEPT ![d] = SubSeq(input, pos + 1, pos + n)]
                     /\ pos' = pos + n
                     /\ upos' = upos
                ELSE /\ cbuf' = [cbuf EXCEPT ![d] = SubSeq(upstream_tx, upos + 1, upos + n)]
                     /\ upos' = upos + n
                     /\ pos' = pos
          /\ cpc' = [cpc EXCEPT ![d] = "write"]
    /\ UNCHANGED <<listenerVars, options, clientVars, parseVars, serverVars, handlerVars,
                   client_rx, upstream_rx, upstream_tx, upstream_closed,
                   write_failed>>

\* s1.read(&mut buf) fails
CopyReadError(d) ==
    /\ hpc = "relay"
    /\ cpc[d] = "read"
    /\ cpc' = [cpc EXCEPT ![d] = "done"]
    /\ UNCHANGED <<listenerVars, options, clientVars, pos, parseVars, serverVars, handlerVars,
                   client_rx, cbuf, upstream_rx, upstream_tx, upos, upstream_closed,
                   write_failed>>

\* Deliver with a write of the whole buffer instead of the bytes read
DeliverWholeBuffer(d, k) ==
    LET buf == cbuf[d] \o Rep(0, CopyBufLen - Len(cbuf[d]))
        n == IF k = Len(cbuf[d]) THEN CopyBufLen ELSE k
    IN IF d = "client"
       THEN /\ upstream_rx' = upstream_rx \o SubSeq(buf, 1, n)
            /\ UNCHANGED client_rx
       ELSE /\ client_rx' =
                 IF n = 0 THEN client_rx
                 ELSE Append(client_rx, [by |-> "relay", bytes |-> SubSeq(buf, 1, n)])
            /\ UNCHANGED upstream_rx

\* what the destination has received once k bytes of the chunk are written
Deliver(d, k) ==
    IF d = "client"
    THEN /\ upstream_rx' = upstream_rx \o SubSeq(cbuf[d], 1, k)
         /\ UNCHANGED client_rx
    ELSE /\ client_rx' =
              IF k = 0 THEN client_rx
              ELSE Append(client_rx, [by |-> "relay", bytes |-> SubSeq(cbuf[d], 1, k)])
         /\ UNCHANGED upstream_rx

\* s2.write_all(data) succeeds, or fails after part of the chunk; the loop
\* goes on in both cases
CopyWrite(d) ==
    /\ hpc = "relay"
    /\ cpc[d] = "write"
    /\ \/ /\ Deliver(d, Len(cbuf[d]))
          /\ UNCHANGED write_failed
       \/ /\ \E k \in 0..(Len(cbuf[d]) - 1) : Deliver(d, k)
          /\ write_failed' = [write_failed EXCEPT ![d] = TRUE]
    /\ cpc' = [cpc EXCEPT ![d] = "read"]
    /\ cbuf' = [cbuf EXCEPT ![d] = <<>>]
    /\ UNCHANGED <<listenerVars, options, clientVars, pos, parseVars, serverVars, handlerVars,
                   upstream_tx, upos, upstream_closed>>

(***************************************************************************)
(* The upstream                                                            *)
(***************************************************************************)
UpstreamWaiting ==
    /\ hpc = "relay"
    /\ cpc["proxy"] = "read"
    /\ upos = Len(upstream_tx)
    /\ ~upstream_closed

UpstreamSend ==
    /\ UpstreamWaiting
    /\ upstream_tx = <<>>
    /\ \E c \in UpstreamChunks : upstream_tx' = c
    /\ UNCHANGED <<listenerVars, options, clientVars, pos, parseVars, serverVars, handlerVars,
                   client_rx, cpc, cbuf, upstream_rx, upos, upstream_closed,
                   write_failed>>

UpstreamClose ==
    /\ UpstreamWaiting
    /\ upstream_closed' = TRUE
    /\ UNCHANGED <<listenerVars, options, clientVars, pos, parseVars, serverVars, handlerVars,
                   client_rx, cpc, cbuf, upstream_rx, upstream_tx, upos,
                   write_failed>>

Next ==
    \/ ClientSendStart
    \/ ClientSend
    \/ ClientClose
    \/ ParseRead
    \/ ParseReadAfterCR
    \/ ParseReadError
    \/ ServerParseFailed
    \/ HandleProxyCall
    \/ ServerHandlerReturned
    \/ ServerWrite
    \/ HandleProxyResolve
    \/ HandleProxyConnect
    \/ HandleProxyWriteOk
    \/ HandleProxyJoin
    \/ \E d \in Dirs : CopyRead(d)
    \/ \E d \in Dirs : CopyReadError(d)
    \/ \E d \in Dirs : CopyWrite(d)
    \/ UpstreamSend
    \/ UpstreamClose

Spec == Init /\ [][Next]_vars

\* a step of the tasks of a tunnel: of a stream_copy task or of the join in
\* handle_proxy
TunnelStep ==
    \/ HandleProxyJoin
    \/ \E d \in Dirs : CopyRead(d)
    \/ \E d \in Dirs : CopyWrite(d)

\* the runtime keeps running the tasks of a tunnel that can take a step; the
\* peers (the client and the upstream) and the failures of reads are under
\* no obligation
FairSpec == Spec /\ WF_vars(TunnelStep)


(***************************************************************************)
(* What the properties below speak of                                      *)
(***************************************************************************)
\* the parse has returned and nothing else has read the connection since
ParseReturned == result # Pending /\ cpc["client"] = "idle"
ParseFailedWith(kind) == ParseReturned /\ ~result.ok /\ result.err.kind = kind
NoReadFailed == ~(result # Pending /\ ~result.ok /\ result.err.kind = "IOError")

\* the bytes read from the connection
Consumed == SubSeq(input, 1, pos)

\* a line without the CR of its CRLF terminator
StripCR(l) ==
    IF Len(l) > 0 /\ l[Len(l)] = CR THEN SubSeq(l, 1, Len(l) - 1) ELSE l

\* the lines of a message that ends with the terminator of its empty line:
\* the start line, the header lines and the empty line
MessageLines(bytes) ==
    LET pieces == Split(bytes, LF)
    IN [i \in 1..(Len(pieces) - 1) |-> StripCR(pieces[i])]

RECURSIVE SumLen(_)
SumLen(ls) == IF Len(ls) = 0 THEN 0 ELSE Len(Head(ls)) + SumLen(Tail(ls))

\* the header lines of such a message
HeaderLinesOf(bytes) ==
    LET ls == MessageLines(bytes)
    IN SubSeq(ls, 2, Len(ls) - 1)

\* number of bytes of the first line before any CR or LF
FirstLineLen(bytes) ==
    IF \A i \in 1..Len(bytes) : bytes[i] \notin {CR, LF}
    THEN Len(bytes)
    ELSE (CHOOSE i \in 1..Len(bytes) :
              bytes[i] \in {CR, LF} /\ \A k \in 1..(i - 1) : bytes[k] \notin {CR, LF}) - 1

(***************************************************************************)
(* C1.  A request that parse accepts carries at most                       *)
(* max_headers_section_len bytes of header lines: the accepted header      *)
(* lines are counted in the section counter.  The code never adds to the   *)
(* counter (request.rs line 288), so this fails.                           *)
(***************************************************************************)
C1_SectionBounded ==
    (ParseReturned /\ result.ok) =>
        SumLen(HeaderLinesOf(Consumed)) <= options.max_headers_section_len

(***************************************************************************)
(* C2.  When no read fails, an input whose first line has more than        *)
(* max_start_line_len() ASCII bytes before any CR or LF makes parse return *)
(* StartLineExceedsMaxLength, whatever follows, the end of the stream      *)
(* included.  The code checks the limit only when one more byte arrives,   *)
(* so this fails.                                                          *)
(***************************************************************************)
C2_LongStartLineRejected ==
    (/\ ParseReturned
     /\ NoReadFailed
     /\ FirstLineLen(input) > max_start_line_len(options)
     /\ \A i \in 1..FirstLineLen(input) : input[i] < AsciiLimit)
    => ParseFailedWith("StartLineExceedsMaxLength")


(***************************************************************************)
(* Reference definitions for the parser properties                         *)
(***************************************************************************)
\* the parse of a sequence of bytes, as far as it gets
RECURSIVE ParseFrom(_, _, _)
ParseFrom(o, c, bytes) ==
    IF Len(bytes) = 0 \/ c.result # Pending THEN c
    ELSE ParseFrom(o, ParseStep(o, c, Head(bytes)), Tail(bytes))

ParseBytes(o, bytes) == ParseFrom(o, InitParse, bytes)

\* the bytes without the CR of each CRLF
RECURSIVE DropCRBeforeLF(_)
DropCRBeforeLF(bytes) ==
    IF Len(bytes) = 0 THEN <<>>
    ELSE IF Len(bytes) >= 2 /\ bytes[1] = CR /\ bytes[2] = LF
         THEN DropCRBeforeLF(Tail(bytes))
         ELSE <<Head(bytes)>> \o DropCRBeforeLF(Tail(bytes))

\* the position of the terminator of the first empty line after the first
\* line, 0 when there is none
HeadersEnd(bytes) ==
    LET ends == { i \in 2..Len(bytes) :
                     /\ bytes[i] = LF
                     /\ \/ bytes[i - 1] = LF
                        \/ i >= 3 /\ bytes[i - 1] = CR /\ bytes[i - 2] = LF }
    IN IF ends = {} THEN 0 ELSE CHOOSE i \in ends : \A k \in ends : i <= k

\* the bytes after the last LF
AfterLastLF(bytes) ==
    LET pieces == Split(bytes, LF) IN pieces[Len(pieces)]

HasByte(str, b) == \E i \in 1..Len(str) : str[i] = b

(***************************************************************************)
(* C3.  In the headers state, a read made while the line buffer holds more *)
(* than max_header_len bytes and the section budget is not exceeded        *)
(* returns HeaderTooLong; a line of exactly max_header_len bytes passes    *)
(* the check at its terminator and, being a header, is inserted; and no    *)
(* header line of an accepted request is longer than max_header_len.       *)
(***************************************************************************)
C3_HeaderStep ==
    (/\ Parsing
     /\ state.tag = "ParseHeaders"
     /\ ppc = "read"
     /\ pos' = pos + 1
     /\ state.size + Len(current_line) <= options.max_headers_section_len)
    => /\ Len(current_line) > options.max_header_len
            => result' = Err("HeaderTooLong", <<>>)
       /\ (Len(current_line) = options.max_header_len /\ input[pos + 1] = CR)
            => (result' = Pending /\ ppc' = "read_lf")
       /\ (/\ Len(current_line) = options.max_header_len
           /\ input[pos + 1] = LF
           /\ ParseHeader(current_line).ok)
            => /\ result' = Pending
               /\ state'.tag = "ParseHeaders"
               /\ ParseHeader(current_line).val[1] \in DOMAIN state'.headers
               /\ current_line' = <<>>

C3_HeaderTooLong ==
    /\ [](ParseReturned /\ result.ok =>
            \A i \in 1..Len(HeaderLinesOf(Consumed)) :
                Len(HeaderLinesOf(Consumed)[i]) <= options.max_header_len)
    /\ [][C3_HeaderStep]_vars

\* a line of exactly max_header_len bytes was accepted and the next line,
\* one byte longer, was refused
C3_Witness ==
    /\ ParseFailedWith("HeaderTooLong")
    /\ Len(current_line) = options.max_header_len + 1
    /\ state.size + Len(current_line) <= options.max_headers_section_len
    /\ \E k \in DOMAIN state.headers : Len(state.headers[k]) = options.max_header_len - 2


(***************************************************************************)
(* C4.  When no read fails, a well-formed message within the limits (a     *)
(* start line of a verb, a target and a version, header lines              *)
(* "key: value", an empty line) is parsed into the request of its start    *)
(* line with a header map sending each trimmed key to its trimmed value,   *)
(* the value being everything after the first colon and the last           *)
(* occurrence of a key winning.  The code cuts a value at its first colon  *)
(* (common.rs lines 45-48), so this fails.                                 *)
(***************************************************************************)
FirstColon(l) == CHOOSE i \in 1..Len(l) : l[i] = COLON /\ \A k \in 1..(i - 1) : l[k] # COLON
KeyOf(l) == Trim(SubSeq(l, 1, FirstColon(l) - 1))
ValueOf(l) == Trim(SubSeq(l, FirstColon(l) + 1, Len(l)))

WellFormedHeader(l) ==
    /\ HasByte(l, COLON)
    /\ ~HasByte(l, CR)
    /\ \A i \in 1..Len(l) : l[i] < AsciiLimit
    /\ KeyOf(l) # <<>>
    /\ ValueOf(l) # <<>>

WellFormedStartLine(l) ==
    LET pieces == Split(l, SP)
    IN /\ Len(pieces) = 3
       /\ ~HasByte(l, CR)
       /\ \A i \in 1..Len(l) : l[i] < AsciiLimit
       /\ \E m \in Method : Verbs[m] = pieces[1]
       /\ TargetParse(pieces[2]).ok
       /\ \E v \in HttpVersion : Versions[v] = pieces[3]

WellFormedMessage(o, bytes) ==
    /\ HeadersEnd(bytes) = Len(bytes)
    /\ Len(bytes) > 0
    /\ LET ls == MessageLines(bytes)
           hs == HeaderLinesOf(bytes)
       IN /\ WellFormedStartLine(ls[1])
          /\ Len(ls[1]) <= max_start_line_len(o)
          /\ \A i \in 1..Len(hs) : WellFormedHeader(hs[i]) /\ Len(hs[i]) <= o.max_header_len
          /\ SumLen(hs) <= o.max_headers_section_len

RECURSIVE HeaderMapOf(_)
HeaderMapOf(hs) ==
    IF Len(hs) = 0 THEN EmptyMap
    ELSE LET l == hs[Len(hs)]
         IN HashMapInsert(HeaderMapOf(SubSeq(hs, 1, Len(hs) - 1)), KeyOf(l), ValueOf(l))

RequestOf(bytes) ==
    LET pieces == Split(MessageLines(bytes)[1], SP)
    IN [start_line |->
           [method |-> CHOOSE m \in Method : Verbs[m] = pieces[1],
            target |-> TargetParse(pieces[2]).val,
            version |-> CHOOSE v \in HttpVersion : Versions[v] = pieces[3]],
        headers |-> HeaderMapOf(HeaderLinesOf(bytes))]

C4_WellFormedParsed ==
    (ParseReturned /\ NoReadFailed /\ WellFormedMessage(options, Consumed))
    => (result.ok /\ result.val = RequestOf(Consumed))

(***************************************************************************)
(* C5.  The parse reads the connection one byte at a time and looks at     *)
(* every byte it reads; when it returns a Request it has read exactly the  *)
(* bytes up to the terminator of the empty line, and the first read of the *)
(* connection made afterwards, by the relay of the handler, returns the    *)
(* bytes that follow that terminator.                                      *)
(***************************************************************************)
C5_ReadSoFar ==
    /\ Parsing =>
          AfterLastLF(Consumed) =
             current_line \o (IF ppc = "read_lf" THEN <<CR>> ELSE <<>>)
    /\ (ParseReturned /\ result.ok) =>
          (pos > 0 /\ pos = HeadersEnd(input))

C5_FirstReadAfter ==
    (result # Pending /\ result.ok /\ pos = HeadersEnd(input) /\ pos' # pos)
    => /\ cpc["client"] = "read"
       /\ pos' > pos
       /\ cbuf'["client"] = SubSeq(input, HeadersEnd(input) + 1, pos')

C5_NoOverRead == []C5_ReadSoFar /\ [][C5_FirstReadAfter]_vars

\* the bytes that came in one fragment with the end of the headers are
\* what the relay has read first
C5_Witness ==
    /\ result # Pending /\ result.ok
    /\ frags = 1
    /\ cpc["client"] = "write"
    /\ upstream_rx = <<>>
    /\ Len(cbuf["client"]) = 2
    /\ cbuf["client"] = SubSeq(input, HeadersEnd(input) + 1, HeadersEnd(input) + 2)

(***************************************************************************)
(* C6.  A read that returns zero bytes makes the parse return              *)
(* UnexpectedEndOfStream, at either read, and the parse never returns a    *)
(* Request for a stream that ended before the empty line.                  *)
(***************************************************************************)
C6_EndOfStream ==
    /\ (ParseReturned /\ NoReadFailed /\ num_stream_bytes = 0)
          => ParseFailedWith("UnexpectedEndOfStream")
    /\ (ParseReturned /\ NoReadFailed /\ closed /\ pos = Len(input) /\ HeadersEnd(input) = 0)
          => ~result.ok
    /\ (Parsing /\ closed /\ pos = Len(input)) => num_stream_bytes # 0

\* the stream ended right after a CR, in the middle of a header line
C6_Witness ==
    /\ ParseFailedWith("UnexpectedEndOfStream")
    /\ ppc = "read_lf"
    /\ state.tag = "ParseHeaders"
    /\ Len(current_line) > 0

(***************************************************************************)
(* C7.  A CR is taken only as the first half of CRLF: a byte other than LF *)
(* right after a CR makes the parse return UnexpectedCR, in either state,  *)
(* and UnexpectedCR is returned for nothing else; the line buffer, the     *)
(* start line and the headers never hold a CR; and the parse of a stream   *)
(* is the parse of the same stream with each CRLF replaced by LF.          *)
(***************************************************************************)
RequestStrings(sl, hs) ==
    {sl.target.text} \cup (DOMAIN hs) \cup { hs[k] : k \in DOMAIN hs }

C7_CROnlyBeforeLF ==
    /\ ~HasByte(current_line, CR)
    /\ state.tag = "ParseHeaders" =>
          \A str \in RequestStrings(state.start_line, state.headers) : ~HasByte(str, CR)
    /\ (ParseReturned /\ ~result.ok /\ pos >= 2 /\ input[pos - 1] = CR /\ input[pos] # LF)
          => result.err.kind = "UnexpectedCR"
    /\ ParseFailedWith("UnexpectedCR")
          => (pos >= 2 /\ input[pos - 1] = CR /\ input[pos] # LF)
    /\ (spc = "parse" /\ NoReadFailed /\ num_stream_bytes # 0 /\ ppc = "read")
          => ParseBytes(options, DropCRBeforeLF(Consumed)) = Config

\* a CR inside a header line, after a start line ended by CRLF
C7_Witness ==
    /\ ParseFailedWith("UnexpectedCR")
    /\ state.tag = "ParseHeaders"
    /\ HasByte(SubSeq(input, 1, pos - 2), CR)


(***************************************************************************)
(* C8.  When the parse fails the handler is never called and the task      *)
(* writes one response and finishes: 431 for HeadersSectionTooLong and     *)
(* HeaderTooLong, 414 for StartLineExceedsMaxLength, and for every other   *)
(* error 400 with the description of the error as the body.                *)
(***************************************************************************)
ExpectedCode(kind) ==
    IF kind \in {"HeadersSectionTooLong", "HeaderTooLong"} THEN 431
    ELSE IF kind = "StartLineExceedsMaxLength" THEN 414
    ELSE 400

C8_ParseErrorResponse ==
    (result # Pending /\ ~result.ok) =>
        /\ hpc = "idle" /\ handler_result = Pending /\ dialed = <<>>
        /\ \A i \in 1..Len(events) : events[i] \in {"parse_err", "write"}
        /\ spc \in {"parse", "write", "done"}
        /\ spc # "done" => client_rx = <<>>
        /\ spc = "done" =>
              /\ Len(client_rx) = 1
              /\ client_rx[1].by = "server"
              /\ LET r == client_rx[1].response
                     code == ExpectedCode(result.err.kind)
                 IN /\ StatusCode[r.status] = code
                    /\ code = 400 => r.body = ErrorDisplay(result.err)
                    /\ r.content_length = MessageLen(r.body)

\* an over-long start line answered with 414
C8_Witness ==
    /\ ParseFailedWith("StartLineExceedsMaxLength")
    /\ spc = "done"
    /\ Len(client_rx) = 1
    /\ StatusCode[client_rx[1].response.status] = 414

(***************************************************************************)
(* C9.  On a connection the task parses, calls the handler and writes the  *)
(* handler's response, in this order and each at most once: the handler is *)
(* called only with a parsed Request, the write follows the return of the  *)
(* handler and writes the response it returned, and after the write        *)
(* nothing more happens on the connection.                                 *)
(***************************************************************************)
IsPrefix(a, b) == Len(a) <= Len(b) /\ a = SubSeq(b, 1, Len(a))

ServerWrites == { i \in 1..Len(client_rx) : client_rx[i].by = "server" }

C9_Order ==
    /\ \/ IsPrefix(events, <<"parse_ok", "handler_call", "handler_return", "write">>)
       \/ IsPrefix(events, <<"parse_err", "write">>)
    /\ (hpc # "idle" \/ handler_result # Pending) =>
          (result # Pending /\ result.ok /\ Len(events) >= 2 /\ events[2] = "handler_call")
    /\ Len(events) >= 3 => handler_result # Pending
    /\ Cardinality(ServerWrites) = Cardinality({ i \in 1..Len(events) : events[i] = "write" })
    /\ (Len(events) = 4) =>
          /\ handler_result.ok
          /\ \E i \in ServerWrites : client_rx[i].response = handler_result.val
          /\ spc = "done"

C9_ParseHandlerWrite ==
    /\ []C9_Order
    /\ [][spc = "done" => UNCHANGED <<spc, events, result, hpc, handler_result, client_rx>>]_vars

\* a request parsed, handled and answered
C9_Witness ==
    /\ events = <<"parse_ok", "handler_call", "handler_return", "write">>
    /\ spc = "done"

(***************************************************************************)
(* C10.  handle_proxy applies its rejection rules in order and the first   *)
(* that matches gives the one response: 405 for a method other than        *)
(* CONNECT, else 400 "Invalid proxy target" for a target that is not an    *)
(* Authority, else 400 "Invalid port. Must use 443" for a port other than  *)
(* 443, else 400 "Invalid proxy target" for another domain.                *)
(***************************************************************************)
NoRule == <<0, "">>

FirstRule(sl) ==
    IF sl.method # "CONNECT" THEN <<405, "">>
    ELSE IF sl.target.form # "Authority" THEN <<400, "Invalid proxy target">>
    ELSE IF sl.target.port # {} /\ sl.target.port # {443}
         THEN <<400, "Invalid port. Must use 443">>
    ELSE IF sl.target.text # GiphyHost THEN <<400, "Invalid proxy target">>
    ELSE NoRule

C10_RejectionOrder ==
    (result # Pending /\ result.ok /\ hpc # "idle"
        /\ FirstRule(result.val.start_line) # NoRule) =>
        /\ handler_result # Pending
        /\ handler_result.ok
        /\ StatusCode[handler_result.val.status] = FirstRule(result.val.start_line)[1]
        /\ handler_result.val.body = Text(FirstRule(result.val.start_line)[2])
        /\ dialed = <<>>
        /\ \A i \in 1..Len(client_rx) :
              client_rx[i].by = "server" /\ client_rx[i].response = handler_result.val

\* a port other than 443 on a domain that is not allow-listed either
C10_Witness ==
    /\ result # Pending /\ result.ok
    /\ hpc = "returned"
    /\ result.val.start_line.method = "CONNECT"
    /\ result.val.start_line.target.text = OtherHost
    /\ result.val.start_line.target.port = {80}
    /\ handler_result.val.body = Text("Invalid port. Must use 443")

(***************************************************************************)
(* What the properties of handle_proxy speak of                            *)
(***************************************************************************)
\* handle_proxy has been called with the parsed request
HandlerCalled == result # Pending /\ result.ok /\ hpc # "idle"

\* the request names the allow-listed domain in a CONNECT to an Authority
AllowListed(sl) ==
    /\ sl.method = "CONNECT"
    /\ sl.target.form = "Authority"
    /\ sl.target.text = GiphyHost

HandlerWrites == { i \in 1..Len(client_rx) : client_rx[i].by = "handler" }
RelayWrites == { i \in 1..Len(client_rx) : client_rx[i].by = "relay" }

(***************************************************************************)
(* C11.  A CONNECT whose target is an Authority with the allow-listed      *)
(* domain and a port that is absent or 443 matches no rejection rule:      *)
(* handle_proxy does not answer it with a 4xx, it goes on to resolve and   *)
(* dial.  The code rejects the absent port (lib.rs line 64), so this       *)
(* fails.                                                                  *)
(***************************************************************************)
C11_AbsentPortOrHttpsAccepted ==
    (/\ HandlerCalled
     /\ AllowListed(result.val.start_line)
     /\ result.val.start_line.target.port \in {None, Some(HttpsPort)}) =>
        /\ hpc = "resolve" \/ dialed # <<>>
        /\ ~(/\ handler_result # Pending
             /\ handler_result.ok
             /\ StatusCode[handler_result.val.status] \in 400..499)

(***************************************************************************)
(* C12.  handle_proxy starts a resolve or a dial only for a CONNECT to an  *)
(* Authority with the allow-listed domain, and a CONNECT to any other host *)
(* is answered with a 400 with no resolve and no dial.                     *)
(***************************************************************************)
C12_NoDialBeforeValidation ==
    /\ (dialed # <<>> \/ hpc \in {"resolve", "connect", "write_ok", "relay"}) =>
          /\ HandlerCalled
          /\ AllowListed(result.val.start_line)
    /\ (/\ HandlerCalled
        /\ result.val.start_line.method = "CONNECT"
        /\ result.val.start_line.target.form = "Authority"
        /\ result.val.start_line.target.text # GiphyHost) =>
          /\ handler_result # Pending
          /\ handler_result.ok
          /\ StatusCode[handler_result.val.status] = 400
          /\ dialed = <<>>
          /\ upstream_rx = <<>>

\* the allow-listed host has been resolved and dialed
C12_Witness ==
    /\ HandlerCalled
    /\ AllowListed(result.val.start_line)
    /\ dialed = <<"resolve", "connect">>

(***************************************************************************)
(* C13.  For a request that passes the checks every upstream failure is    *)
(* answered with a 502: when the resolve fails (with an error or with no   *)
(* address) or the dial fails, handle_proxy returns the 502 response and   *)
(* the server writes it.  The error of the resolve leaves handle_proxy     *)
(* through `?` (lib.rs line 72), so this fails.                            *)
(***************************************************************************)
\* the resolve or the dial has failed: handle_proxy has returned after an
\* attempt and before its write of the 200
UpstreamFailed ==
    /\ dialed # <<>>
    /\ hpc = "returned"
    /\ HandlerWrites = {}

C13_UpstreamFailureIs502 ==
    UpstreamFailed =>
        /\ handler_result.ok
        /\ handler_result.val = BadGatewayResponse
        /\ StatusCode[handler_result.val.status] = 502
        /\ spc = "done" =>
              \E i \in ServerWrites : client_rx[i].response = BadGatewayResponse

(***************************************************************************)
(* C14.  After a successful dial the bytes handle_proxy writes on the      *)
(* client connection are exactly "HTTP/1.1 200 OK\r\n\r\n", a status line  *)
(* and a blank line with no header line and no body, and no byte of the    *)
(* upstream reaches the client before that response is written.  The       *)
(* response is built by error_response, which always adds a Content-length *)
(* header (response.rs line 69), so this fails.                            *)
(***************************************************************************)
\* "HTTP/1.1 200 OK\r\n\r\n"
TunnelEstablished ==
    <<72, 84, 84, 80, 47, 49, 46, 49, 32, 50, 48, 48, 32, 79, 75, 13, 10, 13, 10>>

C14_TunnelEstablishedBytes ==
    /\ \A i \in HandlerWrites :
          /\ IsPrefix(client_rx[i].bytes, TunnelEstablished)
          /\ client_rx[i].complete => client_rx[i].bytes = TunnelEstablished
    /\ \A j \in RelayWrites :
          \E i \in HandlerWrites : i < j /\ client_rx[i].complete

(***************************************************************************)
(* C15.  Once a tunnel relays, the end of either direction (a read of zero *)
(* bytes or a failed read) ends the tunnel: the other direction is         *)
(* released and handle_proxy returns, also when the peer of the other      *)
(* direction keeps its connection open and sends nothing.  handle_proxy    *)
(* awaits both tasks (lib.rs lines 114-115) and nothing stops the second,  *)
(* so this fails.                                                          *)
(***************************************************************************)
OneDirectionEnded == hpc = "relay" /\ \E d \in Dirs : cpc[d] = "done"

TunnelEnded == hpc = "returned" /\ \A d \in Dirs : cpc[d] = "done"

C15_EitherEndEndsTunnel == OneDirectionEnded ~> TunnelEnded

(***************************************************************************)
(* C16.  In each direction of the relay, as long as no write has failed,   *)
(* the bytes written to the destination are a prefix of the bytes read     *)
(* from the source: every chunk read, of at most the buffer's size, is     *)
(* written whole and in order, nothing is lost, repeated, reordered or     *)
(* added, and a read of zero bytes ends that direction only.               *)
(***************************************************************************)
Other(d) == CHOOSE e \in Dirs : e # d

\* the bytes the task d has read from its source
ReadFrom(d) ==
    IF d = "client" THEN SubSeq(input, HeadersEnd(input) + 1, pos)
    ELSE SubSeq(upstream_tx, 1, upos)

\* the bytes the task d has written to its destination
WrittenTo(d) ==
    IF d = "client" THEN upstream_rx
    ELSE LET rs == SelectSeq(client_rx, LAMBDA r : r.by = "relay")
         IN Flatten([i \in 1..Len(rs) |-> rs[i].bytes])

C16_Prefix ==
    \A d \in Dirs :
        (cpc[d] # "idle" /\ ~write_failed[d]) =>
            /\ IsPrefix(WrittenTo(d), ReadFrom(d))
            /\ WrittenTo(d) \o cbuf[d] = ReadFrom(d)
            /\ Len(cbuf[d]) <= CopyBufLen
            /\ cpc[d] = "write" <=> cbuf[d] # <<>>

C16_ZeroReadEndsOneDirection ==
    \A d \in Dirs :
        (cpc[d] = "read" /\ cpc'[d] = "done") =>
            /\ cpc'[Other(d)] = cpc[Other(d)]
            /\ UNCHANGED <<hpc, handler_result, client_rx, upstream_rx, cbuf>>

C16_RelayPrefix == []C16_Prefix /\ [][C16_ZeroReadEndsOneDirection]_vars

\* the upstream's bytes have reached the client in two chunks, the other
\* direction has ended with a read of zero bytes meanwhile
C16_Witness ==
    /\ ~write_failed["proxy"]
    /\ WrittenTo("proxy") = <<2, 3, 4>>
    /\ Cardinality(RelayWrites) = 2
    /\ cpc["client"] = "done"
    /\ cpc["proxy"] = "read"

(***************************************************************************)
(* C17.  In each direction of the relay any error ends the direction:      *)
(* after a failed write stream_copy reads no more from the source and      *)
(* writes no more to the destination, as after a failed read.  The arm of  *)
(* the failed write only logs (lib.rs lines 138-140) and the loop goes on, *)
(* so this fails.                                                          *)
(***************************************************************************)
C17_WriteErrorEndsDirection ==
    \A d \in Dirs : write_failed[d] => cpc[d] = "done"

(***************************************************************************)
(* C18.  Once the dial has succeeded the result of handle_proxy is always  *)
(* the ConnectionClosed error, also when the write of the 200 fails, and   *)
(* never a Response, so the server writes no response of its own on the    *)
(* connection.  As stated this fails: a failed write of the 200 is         *)
(* returned through `?` (lib.rs line 101) as the I/O error it is.          *)
(***************************************************************************)
DialSucceeded == hpc \in {"write_ok", "relay"} \/ HandlerWrites # {}

C18_AlwaysConnectionClosed ==
    (DialSucceeded /\ handler_result # Pending) =>
        /\ ~handler_result.ok
        /\ handler_result.err.kind = "ConnectionClosed"

(***************************************************************************)
(* C18, amended.  Once the dial has succeeded the result of handle_proxy   *)
(* is always an error and never a Response: the I/O error when the write   *)
(* of the 200 failed, and ConnectionClosed when the 200 was written and    *)
(* both directions of the tunnel have ended.  The server therefore writes  *)
(* no response of its own on the connection.                               *)
(***************************************************************************)
C18_NeverAResponse ==
    DialSucceeded =>
        /\ dialed = <<"resolve", "connect">>
        /\ ServerWrites = {}
        /\ response = None
        /\ spc \in {"handler", "done"}
        /\ handler_result # Pending =>
              /\ ~handler_result.ok
              /\ Cardinality(HandlerWrites) = 1
              /\ \A i \in HandlerWrites :
                    IF client_rx[i].complete
                    THEN /\ handler_result.err.kind = "ConnectionClosed"
                         /\ \A d \in Dirs : cpc[d] = "done"
                    ELSE /\ handler_result.err.kind = "IOError"
                         /\ \A d \in Dirs : cpc[d] = "idle"

\* a tunnel that has relayed bytes and ended, and the task is finished
C18_Witness ==
    /\ DialSucceeded
    /\ handler_result = Err("ConnectionClosed", <<>>)
    /\ spc = "done"
    /\ RelayWrites # {}
    /\ upstream_rx # <<>>

(***************************************************************************)
(* C19.  write_to_stream puts on the stream the status line                *)
(* "<version> <code> <reason>\r\n", one "<key>:<value>\r\n" line per       *)
(* header, a blank "\r\n" and then the bytes of the body and nothing more: *)
(* a body of n bytes gives exactly n bytes after the blank line, for every *)
(* n.  The body loop writes its whole buffer of 128 bytes whatever the     *)
(* read returned (response.rs line 52), so this fails for every body whose *)
(* length is not a multiple of 128.                                        *)
(***************************************************************************)
\* the bytes up to and including the blank line
HeadOnWire(r) ==
    Versions[r.http_version] \o <<SP>> \o ToDecimal(StatusCode[r.status]) \o <<SP>>
    \o StatusText[r.status] \o <<CR, LF>>
    \o ContentLengthKey \o <<COLON>> \o ToDecimal(r.content_length) \o <<CR, LF>>
    \o <<CR, LF>>

ResponseWrites == { i \in 1..Len(client_rx) : client_rx[i].by \in {"server", "handler"} }

C19_ExactBytesOnStream ==
    \A i \in ResponseWrites :
        LET r == client_rx[i].response
            onWire == HeadOnWire(r) \o MessageBytes(r.body)
        IN /\ IsPrefix(client_rx[i].bytes, onWire)
           /\ client_rx[i].complete =>
                 /\ client_rx[i].bytes = onWire
                 /\ Len(client_rx[i].bytes) - Len(HeadOnWire(r)) = r.content_length

(***************************************************************************)
(* C20.  When the handler returns an error instead of a Response the       *)
(* server writes nothing on the connection and finishes it: no status      *)
(* line, header or body is sent for an error of the handler.               *)
(***************************************************************************)
HandlerFailed == handler_result # Pending /\ ~handler_result.ok

C20_NoServerWrite ==
    HandlerFailed =>
        /\ ServerWrites = {}
        /\ response = None
        /\ spc \in {"handler", "done"}
        /\ \A i \in 1..Len(events) : events[i] # "write"

C20_ServerFinishes ==
    /\ (HandlerFailed /\ spc = "handler" /\ spc' # spc) =>
          /\ spc' = "done"
          /\ client_rx' = client_rx
    /\ (HandlerFailed /\ spc = "done") => UNCHANGED <<spc, client_rx, events>>

C20_HandlerErrorNoBytes == []C20_NoServerWrite /\ [][C20_ServerFinishes]_vars

\* the resolve failed with an error: the task has ended with nothing at all
\* written on the connection
C20_Witness ==
    /\ HandlerFailed
    /\ handler_result.err.kind = "IOError"
    /\ dialed = <<"resolve">>
    /\ spc = "done"
    /\ client_rx = <<>>

(***************************************************************************)
(* HttpServer::run as a whole (http/src/server.rs lines 68-141): the calls *)
(* of run on one server, the ready signal, and the connections, each       *)
(* served by a task of its own.  The task of a connection is the one       *)
(* modelled above, here taken in larger steps: the parse of the bytes the  *)
(* client has sent, the handler, the write.                                *)
(***************************************************************************)
\* the ParseOptions of the server
ServerOptions ==
    [max_target_len |-> MaxTargetLen,
     max_headers_section_len |-> LargeSectionLen,
     max_header_len |-> MaxHeaderLen]

\* what a client does on a connection: the bytes it sends in one piece, and
\* whether it then shuts down its sending side.  A CONNECT to the upstream,
\* a line with a bare CR, and a start line that is not ended, with and
\* without the end of the stream
ConnRequests ==
    { [bytes |-> Line3(Verbs["CONNECT"], GiphyHost \o Port443, HTTP11) \o <<LF, LF>>,
       ends |-> FALSE],
      [bytes |-> BasicStartLine \o <<CR, 120>>, ends |-> FALSE],
      [bytes |-> BasicStartLine, ends |-> FALSE],
      [bytes |-> BasicStartLine, ends |-> TRUE] }

\* Cell::take with a Cell that keeps its value
CellTakeKeeps(cell) == cell

\* what Cell::take leaves in the Cell (line 74)
CellTake(cell) == None

\* a limit of one connection served at a time
ConcurrencyLimitOne == Some(1)

\* the limit given to for_each_concurrent (line 88)
ConcurrencyLimit == None

\* the connections whose task has not ended
InFlight == { c \in ConnIds : conns[c].pc \in {"parse", "handler", "tunnel", "write"} }

\* for_each_concurrent takes a further connection only under its limit
UnderLimit ==
    IF ConcurrencyLimit = None
    THEN TRUE
    ELSE Cardinality(InFlight) < Unwrap(ConcurrencyLimit)

\* the server is built with a ready signal, whose receiver is kept, or
\* without one (HttpServerBuilder::build, lines 52-58)
ServerInit ==
    /\ ListenerIdle
    /\ \/ notify_start = None /\ ready = None
       \/ notify_start = Some("sender") /\ ready = Some(<<>>)
    /\ options = ServerOptions
    /\ input = <<>>
    /\ closed = FALSE
    /\ frags = 0
    /\ pos = 0
    /\ state = ParseStartLine
    /\ current_line = <<>>
    /\ ppc = "read"
    /\ num_stream_bytes = -1
    /\ result = Pending
    /\ spc = "parse"
    /\ response = None
    /\ hpc = "idle"
    /\ handler_result = Pending
    /\ client_rx = <<>>
    /\ events = <<>>
    /\ cpc = [d \in Dirs |-> "idle"]
    /\ cbuf = [d \in Dirs |-> <<>>]
    /\ upstream_rx = <<>>
    /\ upstream_tx = <<>>
    /\ upos = 0
    /\ upstream_closed = FALSE
    /\ write_failed = [d \in Dirs |-> FALSE]
    /\ dialed = <<>>

\* the calls of run are numbered in the order in which they reach the bind
NextRun(r) == rpc[r] = "idle" /\ \A q \in 1..(r - 1) : rpc[q] # "idle"

\* TcpListener::bind fails: run returns the error through `?` (line 71)
RunBindFailed(r) ==
    /\ NextRun(r)
    /\ rpc' = [rpc EXCEPT ![r] = "failed"]
    /\ UNCHANGED <<notify_start, ready, conns, connVars>>

\* s.send(()) of run r on the channel of the ready signal (line 77)
Send(channel, r) == Some(Append(Unwrap(channel), r))

\* TcpListener::bind succeeds; the ready signal is taken out of its Cell
\* and sent if there is one (lines 71-84), and run starts to accept
RunBind(r) ==
    /\ NextRun(r)
    /\ rpc' = [rpc EXCEPT ![r] = "accepting"]
    /\ ready' = IF notify_start # None THEN Send(ready, r) ELSE ready
    /\ notify_start' = CellTake(notify_start)
    /\ UNCHANGED <<conns, connVars>>

\* the next connection, in the order in which clients connect
NextConn(c) == conns[c].pc = "none" /\ \A d \in 1..(c - 1) : conns[d].pc # "none"

Accepting == \E r \in Runs : rpc[r] = "accepting"

\* incoming() yields a connection and its task is spawned (lines 88-98)
Accept(c) ==
    /\ Accepting
    /\ NextConn(c)
    /\ UnderLimit
    /\ conns' = [conns EXCEPT ![c].pc = "parse"]
    /\ UNCHANGED <<rpc, notify_start, ready, connVars>>

\* incoming() yields an error: it is logged and nothing is spawned (lines 91-94)
AcceptFailed(c) ==
    /\ Accepting
    /\ NextConn(c)
    /\ UnderLimit
    /\ conns' = [conns EXCEPT ![c].pc = "refused"]
    /\ UNCHANGED <<rpc, notify_start, ready, connVars>>

\* the client of connection c sends its request
ConnSend(c) ==
    /\ conns[c].pc = "parse"
    /\ conns[c].input = <<>>
    /\ \E q \in ConnRequests :
          conns' = [conns EXCEPT ![c].input = q.bytes, ![c].closed = q.ends]
    /\ UNCHANGED <<rpc, notify_start, ready, connVars>>

\* what Request::parse returns on the bytes received, Pending while it waits
\* in a read
ParseOutcome(bytes, ended) ==
    CHOOSE r \in { IF c.result # Pending \/ ~ended THEN c.result ELSE ParseEof(c).result :
                      c \in {ParseBytes(options, bytes)} } : TRUE

\* where the task is once the parse has returned r (lines 98-125)
AfterParse(conn, r) ==
    IF r.ok
    THEN [conn EXCEPT !.result = r, !.pc = "handler"]
    ELSE [conn EXCEPT !.result = r, !.pc = "write",
                      !.response = Some(ParseErrorResponse(r.err))]

\* Request::parse of connection c returns
ConnParse(c) ==
    /\ conns[c].pc = "parse"
    /\ \E r \in {ParseOutcome(conns[c].input, conns[c].closed)} :
          /\ r # Pending
          /\ conns' = [conns EXCEPT ![c] = AfterParse(@, r)]
    /\ UNCHANGED <<rpc, notify_start, ready, connVars>>

\* the first read of Request::parse of connection c fails
ConnReadError(c) ==
    /\ conns[c].pc = "parse"
    /\ conns[c].input = <<>>
    /\ conns' = [conns EXCEPT ![c] = AfterParse(@, Err("IOError", <<>>))]
    /\ UNCHANGED <<rpc, notify_start, ready, connVars>>

\* where the task is once the handler has returned hr (lines 100-106)
AfterHandler(conn, hr) ==
    [conn EXCEPT !.handler_result = hr,
                 !.pc = ServerAfterHandler(hr),
                 !.response = IF hr.ok THEN Some(hr.val) ELSE @]

\* a write_to_stream returns Ok or an error of the stream
WriteResults == BOOLEAN

\* one write_to_stream on a connection, by the handler or by the server
Wrote(conn, who, r, ok) ==
    [conn EXCEPT !.rx = Append(@, [by |-> who, response |-> r, complete |-> ok])]

\* handle_proxy on connection c up to its return, or up to the start of the
\* relay, which holds the task
ConnHandler(c) ==
    /\ conns[c].pc = "handler"
    /\ LET v == Validate(conns[c].result.val)
       IN IF v # None
          THEN conns' = [conns EXCEPT ![c] = AfterHandler(@, Ok(Unwrap(v)))]
          ELSE \/ conns' = [conns EXCEPT ![c] = AfterHandler(@, Err("IOError", <<>>))]
               \/ conns' = [conns EXCEPT ![c] = AfterHandler(@, Ok(BadGatewayResponse))]
               \/ \E ok \in WriteResults :
                     LET wrote == Wrote(conns[c], "handler",
                                        ErrorResponse("Ok", Text("")), ok)
                     IN conns' = [conns EXCEPT ![c] =
                                     IF ok
                                     THEN [wrote EXCEPT !.pc = "tunnel"]
                                     ELSE AfterHandler(wrote, Err("IOError", <<>>))]
    /\ UNCHANGED <<rpc, notify_start, ready, connVars>>

\* both directions of the tunnel of connection c have ended (lib.rs lines
\* 114-117)
ConnTunnelEnd(c) ==
    /\ conns[c].pc = "tunnel"
    /\ conns' = [conns EXCEPT ![c] = AfterHandler(@, Err("ConnectionClosed", <<>>))]
    /\ UNCHANGED <<rpc, notify_start, ready, connVars>>

\* response.write_to_stream(stream) on connection c (lines 108-114, 126-132)
ConnWrite(c) ==
    /\ conns[c].pc = "write"
    /\ \E ok \in WriteResults :
          conns' = [conns EXCEPT
                       ![c] = [Wrote(@, "server", Unwrap(conns[c].response), ok)
                                  EXCEPT !.pc = ServerAfterWrite(ok)]]
    /\ UNCHANGED <<rpc, notify_start, ready, connVars>>

\* the steps of the task of connection c
ConnStep(c) ==
    \/ ConnParse(c)
    \/ ConnReadError(c)
    \/ ConnHandler(c)
    \/ ConnTunnelEnd(c)
    \/ ConnWrite(c)

ServerNext ==
    \/ \E r \in Runs : RunBindFailed(r)
    \/ \E r \in Runs : RunBind(r)
    \/ \E c \in ConnIds : Accept(c)
    \/ \E c \in ConnIds : AcceptFailed(c)
    \/ \E c \in ConnIds : ConnSend(c)
    \/ \E c \in ConnIds : ConnStep(c)

ServerSpec == ServerInit /\ [][ServerNext]_vars

(***************************************************************************)
(* C21.  When the parse fails with a framing error, UnexpectedEndOfStream  *)
(* or UnexpectedCR, the server drops the connection and writes no byte of  *)
(* a response on it.  The server answers every error of the parse, these   *)
(* two included, through the last arm of its match (server.rs lines        *)
(* 123-124), so this fails.                                                *)
(***************************************************************************)
FramingError ==
    /\ result # Pending
    /\ ~result.ok
    /\ result.err.kind \in {"UnexpectedEndOfStream", "UnexpectedCR"}

C21_FramingErrorNoResponse ==
    FramingError =>
        /\ client_rx = <<>>
        /\ response = None
        /\ spc \in {"parse", "done"}

(***************************************************************************)
(* What the properties of the server as a whole speak of                   *)
(***************************************************************************)
\* connection c waits in Request::parse for bytes its client has not sent
Stalled(c) ==
    /\ conns[c].pc = "parse"
    /\ ~conns[c].closed
    /\ conns[c].input \in {<<>>, BasicStartLine}

\* connection c is held by its handler, which relays
Held(c) == conns[c].pc = "tunnel"

\* the bytes of connection c let Request::parse return
Parsable(c) == ParseOutcome(conns[c].input, conns[c].closed) # Pending

\* the server has written a whole response on connection c and is done with it
Served(c) ==
    /\ conns[c].pc = "done"
    /\ \E i \in 1..Len(conns[c].rx) :
          conns[c].rx[i].by = "server" /\ conns[c].rx[i].complete

\* the response the server writes on a connection follows from what was
\* parsed and handled on that connection
OwnResponse(conn) ==
    \A i \in 1..Len(conn.rx) :
        conn.rx[i].by = "server" =>
            conn.rx[i].response =
                IF conn.result.ok THEN conn.handler_result.val
                ELSE ParseErrorResponse(conn.result.err)

\* what Request::parse returns on a connection follows from the bytes of
\* that connection, or is the failure of a read
OwnResult(conn, r) ==
    r # Err("IOError", <<>>) => r = ParseOutcome(conn.input, conn.closed)

\* the runs that have sent the ready signal, in order
Sent == IF ready = None THEN <<>> ELSE Unwrap(ready)

(***************************************************************************)
(* C22.  Connections are served independently.  Whatever the other         *)
(* connections do, stalled in the parse or held by a handler included, an  *)
(* accepting server can take the next connection, and the parse of a       *)
(* connection returns once its own bytes decide it, with the result those  *)
(* bytes give; a step of one connection changes nothing of another; and    *)
(* what the server writes on a connection follows from the parse and the   *)
(* handler of that connection.                                             *)
(***************************************************************************)
C22_State ==
    \A c \in ConnIds :
        /\ (Accepting /\ NextConn(c)) => ENABLED Accept(c)
        /\ (conns[c].pc = "parse" /\ ~Stalled(c)) => Parsable(c)
        /\ OwnResponse(conns[c])

C22_Step ==
    \A c \in ConnIds :
        /\ conns'[c] # conns[c] => \A d \in ConnIds \ {c} : conns'[d] = conns[d]
        /\ conns'[c].result # conns[c].result => OwnResult(conns[c], conns'[c].result)

C22_ServedIndependently == []C22_State /\ [][C22_Step]_vars

C22_Witness == (Stalled(1) \/ Held(1)) /\ Served(2)

(***************************************************************************)
(* C23.  The ready signal is sent at most once; on a server built with     *)
(* one it has been sent exactly when a bind has succeeded, by a run that   *)
(* accepts, in the step in which that run bound, so never by a failed bind *)
(* and never by a later call of run; and it is sent before any connection  *)
(* is accepted.                                                            *)
(***************************************************************************)
C23_State ==
    /\ Len(Sent) <= 1
    /\ ready # None => (Len(Sent) = 1 <=> Accepting)
    /\ \A i \in 1..Len(Sent) : rpc[Sent[i]] = "accepting"
    /\ notify_start # None => Sent = <<>>

C23_Step ==
    /\ ready' # ready =>
          \E r \in Runs : /\ rpc[r] = "idle"
                          /\ rpc'[r] = "accepting"
                          /\ ready' = Some(<<r>>)
    /\ (\E r \in Runs : rpc'[r] = "failed" /\ rpc[r] # "failed") => ready' = ready
    /\ (\E c \in ConnIds : conns[c].pc = "none" /\ conns'[c].pc # "none") =>
          /\ ready' = ready
          /\ ready # None => Len(Sent) = 1

C23_ReadySignalOnce == []C23_State /\ [][C23_Step]_vars

C23_Witness ==
    /\ rpc[1] = "accepting"
    /\ rpc[2] = "accepting"
    /\ Sent = <<1>>
    /\ conns[1].pc = "parse"

(***************************************************************************)
(* C24.  On every line Request::parse hands to parse_header, the complete   *)
(* lines after the start line, parse_header answers as a split at the      *)
(* first colon does: InvalidHeader when the line has no colon or when the  *)
(* trimmed text before or after the first colon is empty, and otherwise    *)
(* the trimmed text before the first colon and the trimmed text of all     *)
(* that follows it.  The code splits at every colon and looks for empty    *)
(* pieces before it trims (common.rs lines 45-54), so this fails.          *)
(***************************************************************************)
\* the complete lines read after the start line, the empty line excluded
HeaderLinesRead ==
    LET ls == MessageLines(Consumed)
    IN SelectSeq(SubSeq(ls, 2, Len(ls)),
                 LAMBDA l : l # <<>> /\ \A i \in 1..Len(l) : l[i] < AsciiLimit)

SplitAtFirstColon(l) ==
    IF ~HasByte(l, COLON) THEN Err("InvalidHeader", <<>>)
    ELSE IF KeyOf(l) = <<>> \/ ValueOf(l) = <<>> THEN Err("InvalidHeader", <<>>)
    ELSE Ok(<<KeyOf(l), ValueOf(l)>>)

C24_SplitAtFirstColon ==
    \A i \in 1..Len(HeaderLinesRead) :
        ParseHeader(HeaderLinesRead[i]) = SplitAtFirstColon(HeaderLinesRead[i])

(***************************************************************************)
(* C25.  At every point of Request::parse the line buffer is within the    *)
(* limit of its state: at most max_start_line_len() bytes while the start  *)
(* line is parsed and at most max_header_len bytes while the headers are.  *)
(* The check compares the length before the append with `>` (request.rs    *)
(* lines 220 and 227), so a buffer at the limit takes one more byte and    *)
(* this fails.                                                             *)
(***************************************************************************)
C25_BufferWithinLimit ==
    IF state.tag = "ParseStartLine"
    THEN Len(current_line) <= max_start_line_len(options)
    ELSE Len(current_line) <= options.max_header_len

(***************************************************************************)
(* C26.  Every Request that Request::parse returns has a target of at most *)
(* max_target_len bytes.  The code checks the length of the whole start    *)
(* line only, against max_start_line_len() (request.rs lines 74-82 and     *)
(* 220), so a short method leaves room for a longer target and this fails. *)
(***************************************************************************)
C26_TargetWithinLimit ==
    (result # Pending /\ result.ok) =>
        Len(result.val.start_line.target.text) <= options.max_target_len

(***************************************************************************)
(* C27.  The line buffer of Request::parse holds ASCII bytes only, at      *)
(* every point and so at every line terminator, where it is taken as text  *)
(* without a check: a byte of 0x80 or more is answered with                *)
(* InvalidEncoding before it is appended, and the byte read after a CR is  *)
(* appended only if it is LF, which it never is.                           *)
(***************************************************************************)
C27_BufferIsAscii == \A i \in 1..Len(current_line) : current_line[i] < AsciiLimit

\* a start line has been taken as text, and a byte that is not ASCII has
\* then arrived behind bytes of a header line
C27_Witness ==
    /\ ParseFailedWith("InvalidEncoding")
    /\ state.tag = "ParseHeaders"
    /\ current_line # <<>>
    /\ input[pos] >= AsciiLimit

====
